---- MODULE Spec2Model ----
(***************************************************************************)
(* The three historical variants of snr(img, smask, nmask) of vcs_code/:   *)
(*   03_snr_median.py, 05_snr_dietrich2007.py and 99_snr_original.py.      *)
(*                                                                         *)
(* Arrays are flattened to sequences of integers.  Floating-point values   *)
(* are modelled exactly, with the IEEE-754 special values numpy produces   *)
(* instead of raising (NaN, the infinities, signed zero):                  *)
(*   - a "Q" is an exact rational        sgn * n / d                       *)
(*   - an "R" is a signed root           sgn * sqrt(n / d) * c^ray         *)
(*     where c = sqrt(2 / (4 - pi)) is the Rayleigh correction factor,     *)
(*     kept symbolic because it is transcendental.                         *)
(* Both are records [cls, sgn, n, d, ray] with cls in {"fin","inf","nan"}, *)
(* n/d in lowest terms, so that record equality is equality of values.     *)
(* Rounding is not modelled: every finite value is the exact real one.     *)
(***************************************************************************)
EXTENDS Integers, Sequences, FiniteSets

\* Number of voxels of the (flattened) image.
NVox == 3
\* Largest factor k by which an image is rescaled.
MaxScale == 3

\* Intensities the voxels are drawn from.
PixelValues == {90, 100, 110}
\* Values a raw mask or label map may hold; > 0 marks membership.
MaskValues == {-1, 0, 1, 2}
\* Labels a caller of 99_snr_original may name as the foreground label.
Labels == {1, 2}

----------------------------------------------------------------------------
(* Exact arithmetic *)

Abs(x) == IF x < 0 THEN -x ELSE x

Sign(x) == IF x < 0 THEN -1 ELSE 1

RECURSIVE GCD(_, _)
GCD(a, b) == IF b = 0 THEN a ELSE GCD(b, a % b)

NaN == [cls |-> "nan", sgn |-> 1, n |-> 0, d |-> 1, ray |-> 0]

Inf(s) == [cls |-> "inf", sgn |-> s, n |-> 0, d |-> 1, ray |-> 0]

\* The finite value s * n / d (n >= 0, d > 0), or s * sqrt(n / d) * c^ray for an R.
Fin(s, n, d, ray) ==
    LET g == GCD(n, d)
    IN  [cls |-> "fin", sgn |-> s, n |-> n \div g, d |-> d \div g,
         ray |-> IF n = 0 THEN 0 ELSE ray]

\* The float holding the rational a / b (b # 0).
QRat(a, b) == Fin(Sign(a) * Sign(b), Abs(a), Abs(b), 0)

IsZero(x) == x.cls = "fin" /\ x.n = 0

IsFinite(x) == x.cls = "fin"

\* float / integer, as numpy divides a float64 by an int64: no exception,
\* x / 0 is an infinity and 0 / 0 is NaN.
QDivInt(q, i) ==
    CASE q.cls = "nan" -> NaN
      [] q.cls = "inf" -> Inf(q.sgn * Sign(i))
      [] i = 0 -> IF q.n = 0 THEN NaN ELSE Inf(q.sgn)
      [] OTHER -> Fin(q.sgn * Sign(i), q.n, q.d * Abs(i), 0)

\* Sqrt with the root forgotten, the variance taken for sigma (a faulty variant).
SqrtForgotten(q) ==
    CASE q.cls = "nan" -> NaN
      [] q.cls = "inf" -> IF q.sgn = 1 THEN Inf(1) ELSE NaN
      [] q.n = 0 -> q
      [] q.sgn = -1 -> NaN
      [] OTHER -> Fin(1, q.n * q.n, q.d * q.d, 0)

\* np.sqrt of a float: NaN below zero, sqrt(-0.0) = -0.0.
Sqrt(q) ==
    CASE q.cls = "nan" -> NaN
      [] q.cls = "inf" -> IF q.sgn = 1 THEN Inf(1) ELSE NaN
      [] q.n = 0 -> q
      [] q.sgn = -1 -> NaN
      [] OTHER -> Fin(1, q.n, q.d, 0)

\* np.sqrt(2.0/(4.0 - pi)) * r
RayleighCorrect(r) ==
    CASE r.cls = "nan" -> NaN
      [] r.cls = "inf" -> r
      [] OTHER -> Fin(r.sgn, r.n, r.d, r.ray + 1)

\* fg_mean / bg_std: a Q divided by an R, as float64 division (never raises).
Div(q, r) ==
    CASE q.cls = "nan" \/ r.cls = "nan" -> NaN
      [] q.cls = "inf" /\ r.cls = "inf" -> NaN
      [] q.cls = "inf" -> Inf(q.sgn * r.sgn)
      [] r.cls = "inf" -> Fin(q.sgn * r.sgn, 0, 1, 0)
      [] r.n = 0 -> IF q.n = 0 THEN NaN ELSE Inf(q.sgn * r.sgn)
      [] OTHER -> Fin(q.sgn * r.sgn, q.n * q.n * r.d, q.d * q.d * r.n, -r.ray)

\* a + b for two finite non-negative floats, NaN if either is NaN.
QAdd(a, b) ==
    IF a.cls = "nan" \/ b.cls = "nan" THEN NaN
    ELSE Fin(1, a.n * b.d + b.n * a.d, a.d * b.d, 0)

\* x ** 2
QSquare(x) == IF x.cls = "nan" THEN NaN ELSE Fin(1, x.n * x.n, x.d * x.d, 0)

\* integer - float
QSubFrom(x, c) ==
    IF c.cls = "nan" THEN NaN ELSE QRat(x * c.d - c.sgn * c.n, c.d)

----------------------------------------------------------------------------
(* Arrays *)

\* An optional array argument: nmask=None, or an array.
NoMask == [isNone |-> TRUE, arr |-> <<>>]

SomeMask(m) == [isNone |-> FALSE, arr |-> m]

\* IsNone with the test inverted (a faulty variant).
IsNotNone(nmask) == ~nmask.isNone

\* nmask is None
IsNone(nmask) == nmask.isNone

\* Boolean indexing needs congruent shapes (numpy raises IndexError otherwise).
Congruent(img, mask) == Len(img) = Len(mask)

\* img[mask > 0]: a new array holding the selected values, in order.
RECURSIVE Select(_, _)
Select(img, mask) ==
    IF Len(img) = 0 THEN <<>>
    ELSE LET rest == Select(Tail(img), Tail(mask))
         IN  IF Head(mask) > 0 THEN <<Head(img)>> \o rest ELSE rest

\* np.sum over an integer array: the sum of its values.
RECURSIVE Sum(_)
Sum(a) == IF Len(a) = 0 THEN 0 ELSE Head(a) + Sum(Tail(a))

RECURSIVE Insert(_, _)
Insert(x, s) ==
    IF Len(s) = 0 THEN <<x>>
    ELSE IF x <= Head(s) THEN <<x>> \o s
    ELSE <<Head(s)>> \o Insert(x, Tail(s))

RECURSIVE Sorted(_)
Sorted(a) == IF Len(a) = 0 THEN <<>> ELSE Insert(Head(a), Sorted(Tail(a)))

\* Median taking the lower middle value for an even count (a faulty variant).
MedianLowerMiddle(region) ==
    LET n == Len(region)
        s == Sorted(region)
    IN  IF n = 0 THEN NaN ELSE QRat(s[(n + 1) \div 2], 1)

\* np.median: the middle value of the sorted data, the mean of the two middle
\* values when the count is even, NaN (no exception) for an empty selection.
Median(region) ==
    LET n == Len(region)
        s == Sorted(region)
    IN  IF n = 0 THEN NaN
        ELSE IF n % 2 = 1 THEN QRat(s[(n + 1) \div 2], 1)
        ELSE QRat(s[n \div 2] + s[n \div 2 + 1], 2)

\* region - c: a new array of floats.
Deviations(region, c) == [i \in 1..Len(region) |-> QSubFrom(region[i], c)]

\* np.sum(x ** 2) over an array of floats; 0.0 for an empty array.
RECURSIVE SumSquares(_)
SumSquares(x) ==
    IF Len(x) = 0 THEN Fin(1, 0, 1, 0)
    ELSE QAdd(QSquare(Head(x)), SumSquares(Tail(x)))

\* Centred with the subtraction done in place, img[mask > 0] -= c (a faulty variant).
CentredInPlace(img, mask, c) ==
    [img |-> [i \in 1..Len(img) |->
                IF mask[i] > 0 /\ c.cls = "fin"
                THEN img[i] - (c.sgn * c.n) \div c.d ELSE img[i]],
     out |-> Deviations(Select(img, mask), c)]

\* The expression img[mask > 0] - c: numpy builds the result in a new array and
\* leaves img as it was.  img is the operand after the evaluation.
Centred(img, mask, c) ==
    [img |-> img, out |-> Deviations(Select(img, mask), c)]

Max(a, b) == IF a >= b THEN a ELSE b

\* ndarray.var(ddof): mean-centred sum of squares over max(N - ddof, 0);
\* NaN (with a warning, no exception) when that divisor is 0.
Var(region, ddof) ==
    LET N == Len(region)
        arrmean == QDivInt(QRat(Sum(region), 1), N)
    IN  QDivInt(SumSquares(Deviations(region, arrmean)), Max(N - ddof, 0))

\* ndarray.std(ddof)
Std(region, ddof) == Sqrt(Var(region, ddof))

----------------------------------------------------------------------------
(* The three variants of snr *)

\* What a call leaves behind: the caller's arrays as they are after the call,
\* the locals at the point of exit, and the outcome (exc = "" for a return).
\* path is the branch of the noise estimator taken: "none" for the
\* nmask-is-None branch, "given" for the else branch, "-" before either.
Exit(img, smask, nmask, fgmask, bgmask, path, fg_mean, bg_std, exc, val) ==
    [img |-> img, smask |-> smask, nmask |-> nmask,
     fgmask |-> fgmask, bgmask |-> bgmask, path |-> path,
     fg_mean |-> fg_mean, bg_std |-> bg_std, exc |-> exc, val |-> val]

\* Normalizer with Bessel's correction left out (a faulty variant).
NormalizerUncorrected(mask) == Sum(mask)

\* np.sum(mask) - 1, the normalizer of the manual sigma.
Normalizer(mask) == Sum(mask) - 1

\* np.sqrt(np.sum(dev ** 2) / (np.sum(mask) - 1))
ManualSigma(dev, mask) == Sqrt(QDivInt(SumSquares(dev), Normalizer(mask)))

\* np.sqrt(2.0/(4.0 - pi)) * img[mask > 0].std(ddof=1)
RayleighSigma(img, mask) == RayleighCorrect(Std(Select(img, mask), 1))

\* float(fg_mean / bg_std)
Ratio(fg_mean, bg_std) == Div(fg_mean, bg_std)

\* 03_snr_median.py
snr03(img, smask, nmask) ==
    IF ~Congruent(img, smask)
    THEN Exit(img, smask, nmask, <<>>, <<>>, "-", NaN, NaN, "IndexError", NaN)
    ELSE
    LET fg_mean == Median(Select(img, smask))
        path == IF IsNone(nmask) THEN "none" ELSE "given"
        nmask_ == IF IsNone(nmask) THEN smask ELSE nmask.arr
    IN  IF ~Congruent(img, nmask_)
        THEN Exit(img, smask, nmask, smask, nmask_, path, fg_mean, NaN,
                  "IndexError", NaN)
        ELSE
        LET bg_std == Std(Select(img, nmask_), 0)
        IN  Exit(img, smask, nmask, smask, nmask_, path, fg_mean, bg_std,
                 "", Ratio(fg_mean, bg_std))

\* 05_snr_dietrich2007.py
snr05(img, smask, nmask) ==
    IF ~Congruent(img, smask)
    THEN Exit(img, smask, nmask, <<>>, <<>>, "-", NaN, NaN, "IndexError", NaN)
    ELSE
    LET fg_mean == Median(Select(img, smask))
    IN  IF IsNone(nmask)
        THEN
        LET nmask_ == smask
            bg_mean == Median(Select(img, nmask_))
            cen == Centred(img, nmask_, bg_mean)
            bg_std == ManualSigma(cen.out, nmask_)
        IN  Exit(cen.img, smask, nmask, smask, nmask_, "none", fg_mean, bg_std,
                 "", Ratio(fg_mean, bg_std))
        ELSE
        IF ~Congruent(img, nmask.arr)
        THEN Exit(img, smask, nmask, smask, nmask.arr, "given", fg_mean, NaN,
                  "IndexError", NaN)
        ELSE
        LET bg_std == RayleighSigma(img, nmask.arr)
        IN  Exit(img, smask, nmask, smask, nmask.arr, "given", fg_mean, bg_std,
                 "", Ratio(fg_mean, bg_std))

\* Binary erosion of an indicator array along the one axis of the flattened
\* image: a voxel stays when it and both its neighbours are set (outside the
\* array counts as not set).
Erode(ind) ==
    [i \in 1..Len(ind) |->
        IF /\ ind[i] = 1
           /\ i > 1 /\ ind[i - 1] = 1
           /\ i < Len(ind) /\ ind[i + 1] = 1
        THEN 1 ELSE 0]

\* _prepare_mask(mask, label, erode): the indicator of the (eroded, if
\* requested) region of mask that carries the label.
PrepareMask(mask, label, erode) ==
    LET ind == [i \in 1..Len(mask) |-> IF mask[i] = label THEN 1 ELSE 0]
    IN  IF erode THEN Erode(ind) ELSE ind

\* 99_snr_original.py
snr99(img, smask, nmask, erode, fglabel) ==
    LET fgmask == PrepareMask(smask, fglabel, erode)
        bgmask == IF ~IsNone(nmask) THEN SomeMask(PrepareMask(nmask.arr, 1, erode))
                  ELSE NoMask
    IN  IF ~Congruent(img, fgmask)
        THEN Exit(img, smask, nmask, fgmask, bgmask.arr, "-", NaN, NaN,
                  "IndexError", NaN)
        ELSE
        LET fg_mean == Median(Select(img, fgmask))
        IN  IF IsNone(bgmask)
            THEN
            LET bgmask_ == fgmask
                bg_mean == fg_mean
                cen == Centred(img, bgmask_, bg_mean)
                bg_std == ManualSigma(cen.out, bgmask_)
            IN  Exit(cen.img, smask, nmask, fgmask, bgmask_, "none", fg_mean,
                     bg_std, "", Ratio(fg_mean, bg_std))
            ELSE
            IF ~Congruent(img, bgmask.arr)
            THEN Exit(img, smask, nmask, fgmask, bgmask.arr, "given", fg_mean,
                      NaN, "IndexError", NaN)
            ELSE
            LET bg_std == RayleighSigma(img, bgmask.arr)
            IN  Exit(img, smask, nmask, fgmask, bgmask.arr, "given", fg_mean,
                     bg_std, "", Ratio(fg_mean, bg_std))

----------------------------------------------------------------------------
(* The calls *)

VARIABLES
    img,      \* the caller's image array
    smask,    \* the caller's foreground mask
    nmask,    \* the caller's background mask, or NoMask
    pc,       \* "ready" before the call, "done" after it
    variant,  \* the variant called: "03", "05" or "99"
    opts,     \* the erode and fglabel arguments (99 only)
    frame,    \* the locals of the call at its exit
    ret,      \* the outcome: [exc, val]
    k,        \* the factor of the rescaled call (0: none was made)
    ret_k     \* the outcome of the call on k * img

vars == <<img, smask, nmask, pc, variant, opts, frame, ret, k, ret_k>>

\* Every variant treats the voxels alike: the selections, the median and the
\* sums do not depend on the order of the voxels, so permuting the image and
\* the masks together changes no result.  The images are therefore taken in
\* non-decreasing order, and the masks range over all arrangements.
Images == {im \in [1..NVox -> PixelValues] : \A i \in 1..(NVox - 1) : im[i] <= im[i + 1]}

\* A mask one voxel short of the image (numpy refuses it as a boolean index).
ShortMask == [i \in 1..(NVox - 1) |-> 1]

RawMasks == [1..NVox -> MaskValues] \cup {ShortMask}

BinaryMasks == [1..NVox -> {0, 1}] \cup {ShortMask}

NoFrame ==
    [fgmask |-> <<>>, bgmask |-> <<>>, path |-> "-", fg_mean |-> NaN,
     bg_std |-> NaN]

NoRet == [exc |-> "-", val |-> NaN]

NoOpts == [erode |-> FALSE, fglabel |-> 0]

Init ==
    /\ img \in Images
    /\ smask \in RawMasks
    /\ nmask \in {NoMask} \cup {SomeMask(m) : m \in BinaryMasks}
    /\ pc = "ready"
    /\ variant = "-"
    /\ opts = NoOpts
    /\ frame = NoFrame
    /\ ret = NoRet
    /\ k = 0
    /\ ret_k = NoRet

\* The state after a call that exits as x.
Finish(x, v, o) ==
    /\ img' = x.img
    /\ smask' = x.smask
    /\ nmask' = x.nmask
    /\ pc' = "done"
    /\ variant' = v
    /\ opts' = o
    /\ frame' = [fgmask |-> x.fgmask, bgmask |-> x.bgmask, path |-> x.path,
                 fg_mean |-> x.fg_mean, bg_std |-> x.bg_std]
    /\ ret' = [exc |-> x.exc, val |-> x.val]

Call03 ==
    /\ pc = "ready"
    /\ Finish(snr03(img, smask, nmask), "03", NoOpts)
    /\ UNCHANGED <<k, ret_k>>

Call05 ==
    /\ pc = "ready"
    /\ Finish(snr05(img, smask, nmask), "05", NoOpts)
    /\ UNCHANGED <<k, ret_k>>

Call99 ==
    /\ pc = "ready"
    /\ \E erode \in BOOLEAN, fglabel \in Labels :
          Finish(snr99(img, smask, nmask, erode, fglabel), "99",
                 [erode |-> erode, fglabel |-> fglabel])
    /\ UNCHANGED <<k, ret_k>>

Next == Call03 \/ Call05 \/ Call99

Spec == Init /\ [][Next]_vars

\* k * img
Scale(im, kk) == [i \in 1..Len(im) |-> kk * im[i]]

\* The outcome of a call that exits as x.
Outcome(x) == [exc |-> x.exc, val |-> x.val]

\* snr(img, smask, nmask) and snr(k * img, smask, nmask), 03_snr_median.py
Rescaled03 ==
    /\ pc = "ready"
    /\ Finish(snr03(img, smask, nmask), "03", NoOpts)
    /\ \E kk \in 1..MaxScale :
          /\ k' = kk
          /\ ret_k' = Outcome(snr03(Scale(img, kk), smask, nmask))

\* snr(img, smask, nmask) and snr(k * img, smask, nmask), 05_snr_dietrich2007.py
Rescaled05 ==
    /\ pc = "ready"
    /\ Finish(snr05(img, smask, nmask), "05", NoOpts)
    /\ \E kk \in 1..MaxScale :
          /\ k' = kk
          /\ ret_k' = Outcome(snr05(Scale(img, kk), smask, nmask))

NextScale == Rescaled03 \/ Rescaled05

SpecScale == Init /\ [][NextScale]_vars

----------------------------------------------------------------------------
(* Reference quantities, computed from their definitions *)

Returned == pc = "done" /\ ret.exc = ""

IsIndicator(mask) == \A i \in 1..Len(mask) : mask[i] \in {0, 1}

\* The indicator of the members (> 0) of a raw mask.
Members(mask) == [i \in 1..Len(mask) |-> IF mask[i] > 0 THEN 1 ELSE 0]

IsConstant(r) == \A i, j \in 1..Len(r) : r[i] = r[j]

\* The j-th smallest value of r, by counting.
OrderStat(r, j) ==
    CHOOSE v \in {r[i] : i \in 1..Len(r)} :
        /\ Cardinality({i \in 1..Len(r) : r[i] < v}) < j
        /\ j <= Cardinality({i \in 1..Len(r) : r[i] <= v})

\* Twice the median of a non-empty r: the sum of its two middle order statistics.
TwiceMedian(r) ==
    OrderStat(r, (Len(r) + 1) \div 2) + OrderStat(r, (Len(r) + 2) \div 2)

MedianOf(r) == QRat(TwiceMedian(r), 2)

RECURSIVE SumOfSquares(_)
SumOfSquares(r) ==
    IF Len(r) = 0 THEN 0 ELSE Head(r) * Head(r) + SumOfSquares(Tail(r))

\* sum((2 x - m2)^2), four times the sum of squares about m2 / 2.
RECURSIVE SumSqAboutHalf(_, _)
SumSqAboutHalf(r, m2) ==
    IF Len(r) = 0 THEN 0
    ELSE (2 * Head(r) - m2) * (2 * Head(r) - m2) + SumSqAboutHalf(Tail(r), m2)

\* sqrt(sum((x - med)^2) / (N - 1)) for N >= 2 samples.
MedianCentredSigma(r) ==
    Fin(1, SumSqAboutHalf(r, TwiceMedian(r)), 4 * (Len(r) - 1), 0)

\* N * sum((x - mean)^2) = N * sum(x^2) - sum(x)^2
NTimesSumSqAboutMean(r) == Len(r) * SumOfSquares(r) - Sum(r) * Sum(r)

\* sqrt(2/(4-pi)) * sample_std(r, ddof=1); NaN below 2 samples.
RayleighOf(r) ==
    IF Len(r) < 2 THEN NaN
    ELSE Fin(1, NTimesSumSqAboutMean(r), Len(r) * (Len(r) - 1), 1)

\* The float holding the integer v, as a ratio of the form of ret.val.
Value(v) == Fin(Sign(v), v * v, 1, 0)

\* The mask whose members supply the signal: smask itself in 03 and 05, the
\* prepared foreground mask in 99.
SignalMask ==
    IF variant = "99" THEN PrepareMask(smask, opts.fglabel, opts.erode) ELSE smask

\* The raw mask that supplies the noise: nmask when given, smask otherwise.
NoiseArg == IF nmask.isNone THEN smask ELSE nmask.arr

\* The mask whose members supply the noise, after preparation in 99.
NoiseMask ==
    IF variant # "99" THEN NoiseArg
    ELSE IF nmask.isNone THEN SignalMask
    ELSE PrepareMask(nmask.arr, 1, opts.erode)

Shaped == Congruent(img, smask) /\ Congruent(img, NoiseArg)

----------------------------------------------------------------------------
(* The claims *)

C2_ManualSigmaDividesByCount ==
    (Returned /\ variant = "05" /\ nmask.isNone
        /\ Len(Select(img, smask)) >= 2) =>
        /\ frame.bg_std = MedianCentredSigma(Select(img, smask))
        /\ Select(img, smask) = <<90, 100, 110>> =>
              frame.bg_std = Value(10) /\ ret.val = Value(10)

C4_FiniteOrFails ==
    pc = "done" => (ret.exc # "" \/ IsFinite(ret.val))

\* C5: when the noise region of 05 is constant with at least 2 samples and
\* the computed bg_std is exactly zero, the call raises and returns nothing.
C5_ZeroDispersionRaises ==
    (pc = "done" /\ variant = "05" /\ Shaped
        /\ Len(Select(img, NoiseArg)) >= 2
        /\ IsConstant(Select(img, NoiseArg))
        /\ IsZero(frame.bg_std)) =>
        ret.exc \in {"DivisionByZeroError", "InsufficientSamplesError"}

\* C6: when the noise region of 05 holds exactly 1 sample, the call fails with
\* InsufficientSamplesError.
C6_SingleSampleRaises ==
    (pc = "done" /\ variant = "05" /\ Shaped
        /\ Len(Select(img, NoiseArg)) = 1) =>
        ret.exc = "InsufficientSamplesError"

\* C7: for every k > 0 and every noise region that is not constant,
\* snr(k * img, smask, nmask) has the outcome of snr(img, smask, nmask) (the
\* same value, or NaN both times), with and without nmask, in 03 and in 05.
C7_ScaleInvariant ==
    (pc = "done" /\ k > 0 /\ Shaped /\ ~IsConstant(Select(img, NoiseArg))) =>
        ret_k = ret

\* C7, the case: an image rescaled by k >= 2, an explicit nmask with a region
\* that is not constant, and a finite non-zero ratio.
C7_Witness ==
    /\ pc = "done" /\ variant = "05" /\ k >= 2
    /\ ~nmask.isNone /\ Shaped /\ ~IsConstant(Select(img, NoiseArg))
    /\ ret.exc = "" /\ ret.val.cls = "fin" /\ ret.val.n > 0

\* C8: a call leaves img, smask and nmask as they were, whether it returns or
\* raises, with and without nmask.
C8_ArgumentsUnchanged ==
    [][(pc = "ready" /\ pc' = "done") =>
          (img' = img /\ smask' = smask /\ nmask' = nmask)]_vars

\* C8, the case: 05 returned from the None branch after centring a non-empty
\* region about a non-zero median.
C8_Witness ==
    /\ Returned /\ variant = "05" /\ nmask.isNone
    /\ Len(Select(img, smask)) >= 1
    /\ frame.fg_mean.cls = "fin" /\ frame.fg_mean.n > 0

C10_OriginalAgreesWithDietrich ==
    (pc = "done" /\ variant = "99" /\ nmask.isNone /\ Congruent(img, smask)
        /\ ~opts.erode /\ opts.fglabel = 1
        /\ frame.fgmask = Members(smask)) =>
        ret = Outcome(snr05(img, smask, nmask))

====
